---------------------------- MODULE Spec2Model ----------------------------
(***************************************************************************)
(* Model of src/app.py: the start-up code (load_data, YOLO model load),    *)
(* the pricing utilities (get_part_name_from_id, calculate_prices) and the *)
(* /predict request handler (predict_damage).                              *)
(*                                                                         *)
(* Python values are modelled as follows.                                  *)
(*   - a call result is a record [exc, val]: exc = "none" when the call    *)
(*     returned val, otherwise the name of the exception it raised;        *)
(*   - a dict is a sequence of <<key, value>> pairs with distinct keys, in *)
(*     insertion order;                                                    *)
(*   - a str that the code inspects character by character (file names,   *)
(*     paths) is a sequence of one-character strings;                      *)
(*   - a class identifier is a record [kind, h]: kind = "number" with the  *)
(*     value h/2 (so that the floats the detector yields, and fractional   *)
(*     ones, are covered; 2 and 2.0 are the same dict key in Python),      *)
(*     kind = "text" for a non-numeric str, kind = "none" for None.        *)
(***************************************************************************)
EXTENDS Integers, Sequences, FiniteSets, TLC

(***************************************************************************)
(* Bounds of the model.                                                    *)
(***************************************************************************)
MaxProbe == 8      \* class identifiers -MaxProbe .. MaxProbe are probed
MaxItems == 2      \* entries of a classCounts mapping handed to calculate_prices
MaxCount == 2      \* largest occurrence count in such a mapping
NumRequests == 2   \* POST/GET requests the server handles, possibly concurrently
MaxBoxes == 2      \* detections the model reports for one image

None == "None"
NoExc == "none"

Returned(v) == [exc |-> NoExc, val |-> v]
Raised(e) == [exc |-> e, val |-> None]

(***************************************************************************)
(* dict helpers (insertion ordered)                                        *)
(***************************************************************************)
DictHas(d, k) == \E i \in 1..Len(d) : d[i][1] = k

DictGet(d, k) == d[CHOOSE i \in 1..Len(d) : d[i][1] = k][2]

DictSet(d, k, v) ==
    IF DictHas(d, k)
    THEN [i \in 1..Len(d) |-> IF d[i][1] = k THEN <<k, v>> ELSE d[i]]
    ELSE Append(d, <<k, v>>)

EmptyDict == <<>>

(***************************************************************************)
(* get_part_name_from_id                                                   *)
(***************************************************************************)
class_names == <<"Bonnet", "Bumper", "Dickey", "Door", "Fender", "Light", "Windshield">>

Num(n) == [kind |-> "number", h |-> 2 * n]
Half(h) == [kind |-> "number", h |-> h]
TextId == [kind |-> "text", h |-> 0]
NoneId == [kind |-> "none", h |-> 0]

\* int(x): truncation toward zero for a number, ValueError for a non-numeric
\* str, TypeError for None.
PyInt(x) ==
    CASE x.kind = "number" ->
            Returned(IF x.h >= 0 THEN x.h \div 2 ELSE -((-x.h) \div 2))
      [] x.kind = "text" -> Raised("ValueError")
      [] OTHER -> Raised("TypeError")

\* list[i]: Python indexing, negative indices count from the end.
PyListIndex(list, i) ==
    IF i >= 0 /\ i < Len(list) THEN Returned(list[i + 1])
    ELSE IF i < 0 /\ i >= -Len(list) THEN Returned(list[Len(list) + i + 1])
    ELSE Raised("IndexError")

get_part_name_from_id(class_id) ==
    LET n == PyInt(class_id) IN
    IF n.exc = "TypeError" THEN Returned(None)
    ELSE IF n.exc # NoExc THEN Raised(n.exc)
    ELSE LET e == PyListIndex(class_names, n.val) IN
         IF e.exc = "IndexError" THEN Returned(None) ELSE e

(***************************************************************************)
(* calculate_prices                                                        *)
(***************************************************************************)
Entry(count, price) == [count |-> count, price |-> price, total |-> price * count]

RECURSIVE PriceLoop(_, _, _, _)
PriceLoop(model_prices, items, i, prices) ==
    IF i > Len(items) THEN Returned(prices)
    ELSE LET class_id == items[i][1]
             count == items[i][2]
             part_name == get_part_name_from_id(class_id)
         IN  IF part_name.exc # NoExc THEN Raised(part_name.exc)
             ELSE IF part_name.val # None /\ part_name.val \in DOMAIN model_prices
                  THEN PriceLoop(model_prices, items, i + 1,
                                 DictSet(prices, part_name.val,
                                         Entry(count, model_prices[part_name.val])))
                  ELSE PriceLoop(model_prices, items, i + 1, prices)

\* The brand/model guard dropped: the lookup is made unconditionally and an
\* absent key raises KeyError.
UncheckedPrices(table, car_brand, car_model, class_counts) ==
    IF car_brand \notin DOMAIN table \/ car_model \notin DOMAIN table[car_brand]
    THEN Raised("KeyError")
    ELSE PriceLoop(table[car_brand][car_model], class_counts, 1, EmptyDict)

calculate_prices(table, car_brand, car_model, class_counts) ==
    IF car_brand \notin DOMAIN table \/ car_model \notin DOMAIN table[car_brand]
    THEN Returned(EmptyDict)
    ELSE PriceLoop(table[car_brand][car_model], class_counts, 1, EmptyDict)


(***************************************************************************)
(* Strings handled character by character: werkzeug's secure_filename, the *)
(* extension test and the stored paths.  The alphabet is ASCII; "/" is the *)
(* path separator (os.sep) and " " the only whitespace.                    *)
(***************************************************************************)
Letters == {"a", "c", "e", "g", "h", "i", "j", "m", "n", "o", "p", "r", "t",
            "x", "y", "F", "G", "I", "J", "P"}
Digits == {"0", "1", "2", "3", "4", "5", "6", "7", "8", "9"}
SafeChars == Letters \cup Digits \cup {"_", ".", "-"}

\* str.lower() on one character
LowerChar(c) ==
    CASE c = "F" -> "f" [] c = "G" -> "g" [] c = "I" -> "i"
      [] c = "J" -> "j" [] c = "P" -> "p" [] OTHER -> c

Lower(s) == [i \in 1..Len(s) |-> LowerChar(s[i])]

EndsWith(s, suffix) ==
    /\ Len(s) >= Len(suffix)
    /\ SubSeq(s, Len(s) - Len(suffix) + 1, Len(s)) = suffix

\* str.replace(old, new) for one-character old and new
ReplaceChar(s, old, new) == [i \in 1..Len(s) |-> IF s[i] = old THEN new ELSE s[i]]

\* "_".join(s.split()) followed by the removal of every character outside
\* [A-Za-z0-9_.-]: a run of whitespace between two words becomes one "_",
\* leading and trailing whitespace disappears.  Position by position: the
\* last blank of a run that has a word on both sides turns into "_", every
\* other blank and every unsafe character is dropped.
IsSafeChar(c) == c \in SafeChars

Dropped == "dropped"

JoinedChar(s, i) ==
    IF s[i] # " " THEN s[i]
    ELSE IF /\ i < Len(s)
            /\ s[i + 1] # " "
            /\ \E j \in 1..(i - 1) : s[j] # " "
         THEN "_"
         ELSE Dropped

JoinSplitSafe(s) == SelectSeq([i \in 1..Len(s) |-> JoinedChar(s, i)], IsSafeChar)

\* str.strip("._")
StripDotsUnderscores(s) ==
    LET kept == {i \in 1..Len(s) : s[i] \notin {".", "_"}}
        first == CHOOSE i \in kept : \A j \in kept : i <= j
        last == CHOOSE i \in kept : \A j \in kept : j <= i
    IN  IF kept = {} THEN <<>> ELSE SubSeq(s, first, last)

secure_filename(name) ==
    StripDotsUnderscores(JoinSplitSafe(ReplaceChar(name, "/", " ")))

\* A suffix list that also admits GIF images.
SuffixesWithGif ==
    {<<".", "p", "n", "g">>, <<".", "j", "p", "g">>, <<".", "j", "p", "e", "g">>, <<".", "g", "i", "f">>}

AllowedSuffixes == {<<".", "p", "n", "g">>, <<".", "j", "p", "g">>, <<".", "j", "p", "e", "g">>}

HasImageExtension(filename) ==
    \E suffix \in AllowedSuffixes : EndsWith(Lower(filename), suffix)

\* bytes.hex()
HexDigits == <<"0", "1", "2", "3", "4", "5", "6", "7", "8", "9",
               "a", "b", "c", "d", "e", "f">>

Hex(bytes) ==
    [i \in 1..(2 * Len(bytes)) |->
        IF i % 2 = 1 THEN HexDigits[(bytes[(i + 1) \div 2] \div 16) + 1]
        ELSE HexDigits[(bytes[i \div 2] % 16) + 1]]

UPLOAD_FOLDER == <<"s", "t", "a", "t", "i", "c", "/", "u", "p", "l", "o", "a", "d", "s">>
OriginalPrefix == <<"o", "r", "i", "g", "i", "n", "a", "l", "_">>
DetectedPrefix == <<"d", "e", "t", "e", "c", "t", "e", "d", "_">>

\* os.path.join(folder, name)
PathJoin(folder, name) == folder \o <<"/">> \o name

\* A stored name that leaves the random identifier out.
NameWithoutId(prefix, unique_id, filename) == prefix \o filename

StoredName(prefix, unique_id, filename) == prefix \o unique_id \o <<"_">> \o filename

\* url_for('static', filename='uploads/<name>') and the file it is served from
StaticUrl(name) == <<"/", "s", "t", "a", "t", "i", "c", "/", "u", "p", "l", "o", "a", "d", "s", "/">> \o name
ServedFile(url) == Tail(url)


(***************************************************************************)
(* Inputs                                                                  *)
(***************************************************************************)
\* The price file car_parts_prices.json: absent, not JSON, or a JSON object
\* brand -> model -> part -> unit price (doc is the object json.load returns).
NoDoc == [b \in {} |-> 0]

PriceDocA ==
    [b \in {"Toyota"} |->
        [m \in {"Camry", "Corolla"} |->
            IF m = "Camry" THEN [q \in {"Bonnet", "Light"} |->
                                    IF q = "Bonnet" THEN 100 ELSE 50]
            ELSE [q \in {"Bumper", "Windshield"} |-> IF q = "Bumper" THEN 70 ELSE 30]]]

PriceDocB ==
    [b \in {"Toyota", "Honda"} |->
        IF b = "Toyota" THEN [m \in {"Camry"} |-> [q \in {"Bonnet"} |-> 120]]
        ELSE [m \in {"Civic"} |-> [q \in {"Door", "Windshield"} |->
                                      IF q = "Door" THEN 10 ELSE 30]]]

MissingFile == [exists |-> FALSE, json |-> FALSE, doc |-> NoDoc]
MalformedFile == [exists |-> TRUE, json |-> FALSE, doc |-> NoDoc]
JsonFile(doc) == [exists |-> TRUE, json |-> TRUE, doc |-> doc]

\* the price files the server is started with
PriceFiles == {MissingFile, MalformedFile, JsonFile(PriceDocA)}

\* the price files the pricing functions are called under
TableFiles == {MissingFile, JsonFile(PriceDocA), JsonFile(PriceDocB)}

\* which of YOLO(MODEL_PATH) and YOLO('yolov8n.pt') can be loaded
WeightFiles == {"trained", "pretrained_only", "neither"}

\* sorted() on brand names: the lexicographic order of the names in use
BrandsInOrder == <<"Honda", "Toyota">>
InKeys(keys) == [b \in {"Honda", "Toyota"} |-> b \in keys]
PySorted(keys) == LET member == InKeys(keys)
                      Keep(b) == member[b]
                  IN  SelectSeq(BrandsInOrder, Keep)

PhotoPng == <<"p", "h", "o", "t", "o", ".", "p", "n", "g">>
PhotoGif == <<"p", "h", "o", "t", "o", ".", "G", "I", "F">>
UpperJpg == <<"a", ".", "J", "P", "G">>
TrailingDot == <<"a", ".", "p", "n", "g", ".">>
SpacedJpeg == <<"m", "y", " ", "c", "a", "r", ".", "j", "p", "e", "g">>
HiddenPng == <<".", "p", "n", "g">>

NoFile == [present |-> FALSE, filename |-> <<>>]
File(name) == [present |-> TRUE, filename |-> name]

\* The multipart forms posted: image, car_brand, car_model.  A field is None
\* when it is absent and "" when it is empty.
Form(file, car_brand, car_model) ==
    [file |-> file, car_brand |-> car_brand, car_model |-> car_model]

Forms ==
    { Form(File(PhotoPng), "Toyota", "Camry"),
      Form(File(UpperJpg), "Toyota", "Zen"),
      Form(File(TrailingDot), "Kia", "Camry"),
      Form(File(PhotoGif), "Toyota", "Camry"),
      Form(File(HiddenPng), "Toyota", "Camry"),
      Form(File(<<>>), "Toyota", "Camry"),
      Form(NoFile, "Toyota", "Camry"),
      Form(File(PhotoPng), "", "Camry"),
      Form(File(SpacedJpeg), "Toyota", None) }

\* os.urandom(8): the byte strings the model draws from
IdBytes == 8
RandomBytes == { [i \in 1..IdBytes |-> 0],
                 [i \in 1..IdBytes |-> IF i = 1 THEN 222 ELSE IF i = 2 THEN 173 ELSE i] }

\* Class identifiers the detection model yields: box.cls.item() is a float
\* with a non-negative integral value (0..6 for the trained weights, larger
\* ones for the fallback weights).
DetectorIds == {Num(0), Num(7)}

RECURSIVE SeqsUpTo(_, _)
SeqsUpTo(S, n) ==
    IF n = 0 THEN {<<>>}
    ELSE LET shorter == SeqsUpTo(S, n - 1)
         IN  shorter \cup {Append(q, x) : q \in shorter, x \in S}

Detections == SeqsUpTo(DetectorIds, MaxBoxes)

\* Class identifiers and classCounts mappings handed to the pricing functions
ProbeIds == {Half(h) : h \in (-2 * MaxProbe - 1)..(2 * MaxProbe + 1)} \cup {TextId, NoneId}
CountKeys == {Num(0), Num(5), Num(1), Num(7), Num(-7), Num(-8), Half(1), TextId, NoneId}
HasDistinctKeys(d) == \A i, j \in 1..Len(d) : i # j => d[i][1] # d[j][1]
ClassCountsInputs ==
    {d \in SeqsUpTo(CountKeys \X (1..MaxCount), MaxItems) : HasDistinctKeys(d)}

\* collections.Counter(class_ids): the keys in the order of their first
\* occurrence, each with the number of its occurrences
Counter(class_ids) ==
    LET firsts == {i \in 1..Len(class_ids) :
                      \A j \in 1..(i - 1) : class_ids[j] # class_ids[i]}
        nth(n) == CHOOSE i \in firsts : Cardinality({j \in firsts : j < i}) = n - 1
        occurrences(k) == Cardinality({j \in 1..Len(class_ids) : class_ids[j] = k})
    IN  [n \in 1..Cardinality(firsts) |->
            <<class_ids[nth(n)], occurrences(class_ids[nth(n)])>>]

\* file contents: the bytes client r uploaded, with or without boxes drawn,
\* completely written or cut short by a failed write
Upload(r) == [data |-> r, boxes |-> FALSE, whole |-> TRUE]
Annotated(c) == [c EXCEPT !.boxes = TRUE]
Partial(c) == [c EXCEPT !.whole = FALSE]


(***************************************************************************)
(* State                                                                   *)
(***************************************************************************)
VARIABLES
    env,               \* what start-up finds: the price file, and whether each
                       \* of the two YOLO(...) loads succeeds
    phase,             \* "load_data", "load_model", "serving" or "crashed"
    CAR_PRICES,
    AVAILABLE_BRANDS,
    MODEL,             \* None, "custom" (MODEL_PATH) or "fallback" (yolov8n.pt)
    fs,                \* the files under static/uploads: path -> content
    req,               \* the requests: each one's locals and its position
    call               \* a direct call of one of the pricing functions

vars == <<env, phase, CAR_PRICES, AVAILABLE_BRANDS, MODEL, fs, req, call>>

Requests == 1..NumRequests

NoContent == [data |-> 0, boxes |-> FALSE, whole |-> FALSE]
NoFiles == [q \in {} |-> NoContent]

NewRequest ==
    [pc |-> "AwaitingUpload", method |-> "", file |-> NoFile,
     car_brand |-> None, car_model |-> None,
     filename |-> <<>>, unique_id |-> <<>>,
     original_filename |-> <<>>, detected_filename |-> <<>>,
     seen |-> NoContent, boxes |-> -1,
     class_counts |-> EmptyDict, part_prices |-> EmptyDict,
     page |-> "", error |-> "", original_image |-> <<>>, detected_image |-> <<>>,
     validated |-> FALSE, invoked |-> FALSE, failed |-> "", wrote |-> {}]

NoCall == [fn |-> "", class_id |-> NoneId, car_brand |-> None, car_model |-> None,
           class_counts |-> EmptyDict, done |-> FALSE, ret |-> Returned(None)]

original_image_path(rec) == PathJoin(UPLOAD_FOLDER, rec.original_filename)
detected_image_path(rec) == PathJoin(UPLOAD_FOLDER, rec.detected_filename)

Write(f, path, content) ==
    [q \in DOMAIN f \cup {path} |-> IF q = path THEN content ELSE f[q]]

(***************************************************************************)
(* Start-up                                                                *)
(***************************************************************************)
\* A loader that falls back to a built-in table when the file is unusable.
LoadWithDefaultTable(file) ==
    IF file.exists /\ file.json
    THEN [prices |-> file.doc, brands |-> PySorted(DOMAIN file.doc)]
    ELSE [prices |-> PriceDocA, brands |-> PySorted(DOMAIN PriceDocA)]

\* load_data: the globals after the call.  FileNotFoundError and
\* JSONDecodeError are caught and leave CAR_PRICES = {}, AVAILABLE_BRANDS = [].
load_data(file) ==
    IF file.exists /\ file.json
    THEN [prices |-> file.doc, brands |-> PySorted(DOMAIN file.doc)]
    ELSE [prices |-> NoDoc, brands |-> <<>>]

LoadData ==
    /\ phase = "load_data"
    /\ CAR_PRICES' = load_data(env.price_file).prices
    /\ AVAILABLE_BRANDS' = load_data(env.price_file).brands
    /\ phase' = "load_model"
    /\ UNCHANGED <<env, MODEL, fs, req, call>>

\* MODEL = YOLO(MODEL_PATH), on any exception MODEL = YOLO('yolov8n.pt'); an
\* exception of the second load is raised inside the except clause and ends
\* the import of the module.
LoadModel ==
    /\ phase = "load_model"
    /\ IF env.weights = "trained"
       THEN MODEL' = "custom" /\ phase' = "serving"
       ELSE IF env.weights = "pretrained_only"
            THEN MODEL' = "fallback" /\ phase' = "serving"
            ELSE MODEL' = MODEL /\ phase' = "crashed"
    /\ UNCHANGED <<env, CAR_PRICES, AVAILABLE_BRANDS, fs, req, call>>

(***************************************************************************)
(* predict_damage                                                          *)
(***************************************************************************)
Truthy(x) == x # None /\ x # ""

\* bool(FileStorage) is bool(filename)
FileTruthy(file) == file.present /\ file.filename # <<>>

RenderForm(rec, error) ==
    [rec EXCEPT !.pc = "Rendered", !.page = "predict.html", !.error = error]

\* The exception raised by a step of the try block (rec.failed names the step)
Failing(rec, step) == [rec EXCEPT !.failed = step]

\* render_template('estimate.html', original_image=url_for(...), ...)
RenderEstimate(rec, part_prices) ==
    [rec EXCEPT !.pc = "Rendered", !.page = "estimate.html",
                !.original_image = StaticUrl(rec.original_filename),
                !.detected_image = StaticUrl(rec.detected_filename),
                !.part_prices = part_prices]

\* An except clause that starts the request over.
RetryRequest(rec) == [rec EXCEPT !.pc = "Validating"]

\* except Exception: the upload form with the generic message
OnException(rec) == RenderForm(rec, "unexpected")

\* A finally clause that removes the saved original.
RemoveOriginal(f, rec) ==
    [q \in DOMAIN f \ {original_image_path(rec)} |-> f[q]]

\* finally: pass
FinallyClause(f, rec) == f

\* A no-detections branch that leaves the detected path unwritten.
SkipCopy(f, src, dst) == f

\* shutil.copyfile(src, dst)
CopyFile(f, src, dst) == Write(f, dst, f[src])

GetPredict(r) ==
    /\ phase = "serving"
    /\ req[r].pc = "AwaitingUpload"
    /\ req' = [req EXCEPT ![r] = [RenderForm(@, "") EXCEPT !.method = "GET"]]
    /\ UNCHANGED <<env, phase, CAR_PRICES, AVAILABLE_BRANDS, MODEL, fs, call>>

PostPredict(r) ==
    /\ phase = "serving"
    /\ req[r].pc = "AwaitingUpload"
    /\ \E form \in Forms :
          req' = [req EXCEPT ![r] = [@ EXCEPT !.method = "POST", !.pc = "Validating",
                                               !.file = form.file,
                                               !.car_brand = form.car_brand,
                                               !.car_model = form.car_model]]
    /\ UNCHANGED <<env, phase, CAR_PRICES, AVAILABLE_BRANDS, MODEL, fs, call>>

\* The values Validate computes from its inputs, tabulated once over the
\* posted file names and the random byte strings.
PostedNames == {form.file.filename : form \in Forms}
Sanitised == [name \in PostedNames |-> secure_filename(name)]
Accepted == [name \in PostedNames |-> HasImageExtension(Sanitised[name])]
HexOf == [bytes \in RandomBytes |-> Hex(bytes)]
OriginalName == [bytes \in RandomBytes |-> [name \in PostedNames |->
                    StoredName(OriginalPrefix, HexOf[bytes], Sanitised[name])]]
DetectedName == [bytes \in RandomBytes |-> [name \in PostedNames |->
                    StoredName(DetectedPrefix, HexOf[bytes], Sanitised[name])]]

Validate(r) ==
    LET rec == req[r]
        filename == Sanitised[rec.file.filename]
    IN
    /\ rec.pc = "Validating"
    /\ IF MODEL = None
       THEN req' = [req EXCEPT ![r] = RenderForm(rec, "model")]
       ELSE IF ~(FileTruthy(rec.file) /\ Truthy(rec.car_brand) /\ Truthy(rec.car_model))
       THEN req' = [req EXCEPT ![r] = RenderForm(rec, "select")]
       ELSE IF rec.file.filename = <<>>
       THEN req' = [req EXCEPT ![r] = RenderForm(rec, "upload")]
       ELSE IF ~Accepted[rec.file.filename]
       THEN req' = [req EXCEPT ![r] = RenderForm(rec, "type")]
       ELSE \E bytes \in RandomBytes :
               req' = [req EXCEPT ![r] =
                         [rec EXCEPT !.pc = "Saving", !.validated = TRUE,
                                     !.filename = filename,
                                     !.unique_id = HexOf[bytes],
                                     !.original_filename =
                                         OriginalName[bytes][rec.file.filename],
                                     !.detected_filename =
                                         DetectedName[bytes][rec.file.filename]]]
    /\ UNCHANGED <<env, phase, CAR_PRICES, AVAILABLE_BRANDS, MODEL, fs, call>>

\* file.save(original_image_path): the write succeeds, fails before the file is
\* created, or fails part way.
Save(r) ==
    LET rec == req[r]
        path == original_image_path(rec)
    IN
    /\ rec.pc = "Saving"
    /\ \E outcome \in {"ok", "not_created", "partial"} :
          CASE outcome = "ok" ->
                 /\ fs' = Write(fs, path, Upload(r))
                 /\ req' = [req EXCEPT ![r] = [rec EXCEPT !.pc = "Detecting",
                                                          !.wrote = @ \cup {path}]]
            [] outcome = "not_created" ->
                 /\ fs' = FinallyClause(fs, rec)
                 /\ req' = [req EXCEPT ![r] = OnException(Failing(rec, "save"))]
            [] OTHER ->
                 /\ fs' = FinallyClause(Write(fs, path, Partial(Upload(r))), rec)
                 /\ req' = [req EXCEPT ![r] =
                              OnException(Failing([rec EXCEPT !.wrote = @ \cup {path}], "save"))]
    /\ UNCHANGED <<env, phase, CAR_PRICES, AVAILABLE_BRANDS, MODEL, call>>

\* results = MODEL(original_image_path): the call raises, or yields the class
\* identifiers of the boxes found in the file it read.
DetectPc(class_ids) == IF class_ids # <<>> THEN "Annotating" ELSE "Copying"

Detect(r) ==
    LET rec == req[r]
        path == original_image_path(rec)
    IN
    /\ rec.pc = "Detecting"
    /\ \/ /\ fs' = FinallyClause(fs, rec)
          /\ req' = [req EXCEPT ![r] = OnException(Failing([rec EXCEPT !.invoked = TRUE], "detect"))]
       \/ /\ path \in DOMAIN fs
          /\ \E class_ids \in Detections :
                req' = [req EXCEPT ![r] =
                          [rec EXCEPT !.pc = DetectPc(class_ids),
                                      !.invoked = TRUE,
                                      !.seen = fs[path],
                                      !.boxes = Len(class_ids),
                                      !.class_counts = Counter(class_ids)]]
          /\ fs' = fs
    /\ UNCHANGED <<env, phase, CAR_PRICES, AVAILABLE_BRANDS, MODEL, call>>

\* result.save(filename=detected_image_path)
Annotate(r) ==
    LET rec == req[r]
        path == detected_image_path(rec)
    IN
    /\ rec.pc = "Annotating"
    /\ \E ok \in BOOLEAN :
          IF ok
          THEN /\ fs' = Write(fs, path, Annotated(rec.seen))
               /\ req' = [req EXCEPT ![r] = [rec EXCEPT !.pc = "Pricing",
                                                        !.wrote = @ \cup {path}]]
          ELSE /\ fs' = FinallyClause(Write(fs, path, Partial(Annotated(rec.seen))), rec)
               /\ req' = [req EXCEPT ![r] =
                            OnException(Failing([rec EXCEPT !.wrote = @ \cup {path}], "annotate"))]
    /\ UNCHANGED <<env, phase, CAR_PRICES, AVAILABLE_BRANDS, MODEL, call>>

\* part_prices = calculate_prices(...), then render_template('estimate.html')
Price(r) ==
    LET rec == req[r]
        ret == calculate_prices(CAR_PRICES, rec.car_brand, rec.car_model, rec.class_counts)
    IN
    /\ rec.pc = "Pricing"
    /\ IF ret.exc # NoExc
       THEN req' = [req EXCEPT ![r] = OnException(Failing(rec, "price"))]
       ELSE req' = [req EXCEPT ![r] = RenderEstimate(rec, ret.val)]
    /\ fs' = FinallyClause(fs, rec)
    /\ UNCHANGED <<env, phase, CAR_PRICES, AVAILABLE_BRANDS, MODEL, call>>

\* The no-detections branch: class_counts = Counter(), part_prices = {},
\* shutil.copyfile(original, detected), then render_template('estimate.html')
Copy(r) ==
    LET rec == req[r]
        src == original_image_path(rec)
        dst == detected_image_path(rec)
        cleared == [rec EXCEPT !.class_counts = EmptyDict, !.part_prices = EmptyDict]
    IN
    /\ rec.pc = "Copying"
    /\ \E ok \in BOOLEAN :
          IF ok /\ src \in DOMAIN fs
          THEN /\ fs' = FinallyClause(CopyFile(fs, src, dst), rec)
               /\ req' = [req EXCEPT ![r] =
                            RenderEstimate([cleared EXCEPT !.wrote = @ \cup {dst}],
                                           cleared.part_prices)]
          ELSE /\ fs' = FinallyClause(fs, rec)
               /\ req' = [req EXCEPT ![r] = OnException(Failing(cleared, "copy"))]
    /\ UNCHANGED <<env, phase, CAR_PRICES, AVAILABLE_BRANDS, MODEL, call>>

Step(r) ==
    \/ Validate(r)
    \/ Save(r)
    \/ Detect(r)
    \/ Annotate(r)
    \/ Price(r)
    \/ Copy(r)

(***************************************************************************)
(* Specifications                                                          *)
(***************************************************************************)
Init ==
    /\ env \in [price_file : PriceFiles, weights : WeightFiles]
    /\ phase = "load_data"
    /\ CAR_PRICES = NoDoc
    /\ AVAILABLE_BRANDS = <<>>
    /\ MODEL = None
    /\ fs = NoFiles
    /\ req = [r \in Requests |-> NewRequest]
    /\ call = NoCall

Next ==
    \/ LoadData
    \/ LoadModel
    \/ \E r \in Requests : GetPredict(r)
    \/ \E r \in Requests : PostPredict(r)
    \/ \E r \in Requests : Step(r)

Spec == Init /\ [][Next]_vars

\* The server started with a usable price file, and running every request it
\* has accepted to its response: a handler thread that can take a step
\* eventually takes it.
InitLive ==
    /\ Init
    /\ env.price_file = JsonFile(PriceDocA)

LiveSpec == InitLive /\ [][Next]_vars /\ \A r \in Requests : WF_vars(Step(r))


(***************************************************************************)
(* The pricing functions called directly, under each price table the       *)
(* server can have loaded.                                                 *)
(***************************************************************************)
CallBrands == {"Toyota", "Honda", "Kia"}
CallModels == {"Camry", "Civic", "Zen"}

PendingCalls ==
    {[NoCall EXCEPT !.fn = "get_part_name_from_id", !.class_id = c] : c \in ProbeIds}
    \cup
    {[NoCall EXCEPT !.fn = "calculate_prices", !.car_brand = b, !.car_model = m,
                    !.class_counts = d] :
        b \in CallBrands, m \in CallModels, d \in ClassCountsInputs}

InitCalc ==
    /\ env \in [price_file : TableFiles, weights : {"trained"}]
    /\ phase = "serving"
    /\ CAR_PRICES = load_data(env.price_file).prices
    /\ AVAILABLE_BRANDS = load_data(env.price_file).brands
    /\ MODEL = "custom"
    /\ fs = NoFiles
    /\ req = [r \in Requests |-> NewRequest]
    /\ call \in PendingCalls

CallGetPartName ==
    /\ call.fn = "get_part_name_from_id"
    /\ ~call.done
    /\ call' = [call EXCEPT !.done = TRUE, !.ret = get_part_name_from_id(call.class_id)]
    /\ UNCHANGED <<env, phase, CAR_PRICES, AVAILABLE_BRANDS, MODEL, fs, req>>

CallCalculatePrices ==
    /\ call.fn = "calculate_prices"
    /\ ~call.done
    /\ call' = [call EXCEPT !.done = TRUE,
                            !.ret = calculate_prices(CAR_PRICES, call.car_brand,
                                                     call.car_model, call.class_counts)]
    /\ UNCHANGED <<env, phase, CAR_PRICES, AVAILABLE_BRANDS, MODEL, fs, req>>

NextCalc == CallGetPartName \/ CallCalculatePrices

SpecCalc == InitCalc /\ [][NextCalc]_vars


(***************************************************************************)
(* Properties                                                              *)
(***************************************************************************)
PricingCallDone == call.fn = "calculate_prices" /\ call.done
PairPresent(b, m) == b \in DOMAIN CAR_PRICES /\ m \in DOMAIN CAR_PRICES[b]

\* A dict as the set of its items
Items(d) == {d[i] : i \in 1..Len(d)}

\* Resolution as the specification reads it: an integral identifier in
\* 0 .. len-1 resolves to its name, every other identifier is unresolved.
StrictPartName(class_id) ==
    IF class_id.kind = "number" /\ class_id.h % 2 = 0
       /\ class_id.h \div 2 \in 0..(Len(class_names) - 1)
    THEN Returned(class_names[(class_id.h \div 2) + 1])
    ELSE Returned(None)

\* The name table as the specification reads it: the indices 0..6 resolve.
InTableRange(c) == c.kind = "number" /\ c.h >= 0 /\ c.h <= 2 * (Len(class_names) - 1)

\* The breakdown the specification prescribes for a known brand and model
PrescribedItems(model_prices, class_counts) ==
    { <<StrictPartName(it[1]).val,
        [count |-> it[2],
         price |-> model_prices[StrictPartName(it[1]).val],
         total |-> model_prices[StrictPartName(it[1]).val] * it[2]]>> :
      it \in { x \in Items(class_counts) :
                 /\ StrictPartName(x[1]).val # None
                 /\ StrictPartName(x[1]).val \in DOMAIN model_prices } }

\* C1: for a brand and model of the price table, calculate_prices returns
\* without raising, and the breakdown has exactly one entry {count, price,
\* total = price * count} for each (classId, count) whose classId resolves to
\* a priced part; an unpriced or unresolved classId adds no entry.
C1_PrescribedBreakdown ==
    (PricingCallDone /\ PairPresent(call.car_brand, call.car_model)) =>
        /\ call.ret.exc = NoExc
        /\ Items(call.ret.val) =
              PrescribedItems(CAR_PRICES[call.car_brand][call.car_model],
                              call.class_counts)

\* C2: a class identifier outside 0..6, and a non-numeric one, resolves to
\* None and get_part_name_from_id does not raise.
C2_UnresolvedOutsideRange ==
    (call.fn = "get_part_name_from_id" /\ call.done /\ ~InTableRange(call.class_id)) =>
        call.ret = Returned(None)

\* C3: for a brand absent from the price table, or a model absent from the
\* brand's table, calculate_prices returns the empty breakdown and does not
\* raise, whatever the classCounts mapping.
C3_AbsentPairEmpty ==
    (PricingCallDone /\ ~PairPresent(call.car_brand, call.car_model)) =>
        call.ret = Returned(EmptyDict)

C3_Witness ==
    /\ PricingCallDone
    /\ call.car_brand \in DOMAIN CAR_PRICES
    /\ call.car_model \notin DOMAIN CAR_PRICES[call.car_brand]
    /\ \E i \in 1..Len(call.class_counts) : call.class_counts[i][1] = TextId
    /\ call.ret = Returned(EmptyDict)

\* The extensions the specification admits
ClaimedSuffixes == {<<".", "p", "n", "g">>, <<".", "j", "p", "g">>, <<".", "j", "p", "e", "g">>}
EndsInClaimedSuffix(name) == \E suffix \in ClaimedSuffixes : EndsWith(Lower(name), suffix)

Answered(r) == req[r].method = "POST" /\ req[r].pc \notin {"AwaitingUpload", "Validating"}

FieldMissing(rec) ==
    \/ ~rec.file.present
    \/ rec.car_brand \in {None, ""}
    \/ rec.car_model \in {None, ""}

Rejected(rec) ==
    /\ rec.pc = "Rendered"
    /\ rec.page = "predict.html"
    /\ rec.error \notin {"", "unexpected"}
    /\ rec.wrote = {}
    /\ ~rec.invoked

\* C4: a POST whose image, brand or model is missing, or whose file name (the
\* name the handler holds, sanitised by secure_filename) does not end in
\* .png/.jpg/.jpeg compared case-insensitively, is answered with the upload
\* form and an error; it writes no file and never invokes the detection
\* model, and no request does either before it has passed validation.
C4_InvalidUploadRejected ==
    \A r \in Requests :
        /\ (Answered(r) /\ (\/ FieldMissing(req[r])
                            \/ ~EndsInClaimedSuffix(Sanitised[req[r].file.filename])))
               => Rejected(req[r])
        /\ (req[r].wrote # {} \/ req[r].invoked) => req[r].validated

C4_Witness ==
    \E r \in Requests :
        /\ req[r].file.filename = PhotoGif
        /\ Rejected(req[r])
        /\ req[r].error = "type"
        /\ fs = NoFiles

NoDetections(r) == req[r].boxes = 0

SharesPath(r) ==
    \E q \in Requests \ {r} :
        req[q].validated /\ req[q].original_filename = req[r].original_filename

\* C5 as stated: a validated upload for which the model reports no detection
\* ends with the estimate page and an empty breakdown, and the file at the
\* detected path has the content of the saved original.
C5_NoDetectionsEstimate ==
    \A r \in Requests :
        (NoDetections(r) /\ req[r].pc = "Rendered") =>
            /\ req[r].page = "estimate.html"
            /\ req[r].part_prices = EmptyDict
            /\ ServedFile(req[r].original_image) \in DOMAIN fs
            /\ ServedFile(req[r].detected_image) \in DOMAIN fs
            /\ fs[ServedFile(req[r].detected_image)] = fs[ServedFile(req[r].original_image)]

C5_CopyStep(r) ==
    (req[r].pc = "Copying" /\ req'[r].pc = "Rendered" /\ req'[r].failed = "") =>
        /\ req'[r].page = "estimate.html"
        /\ req'[r].part_prices = EmptyDict
        /\ original_image_path(req[r]) \in DOMAIN fs
        /\ ServedFile(req'[r].original_image) = original_image_path(req[r])
        /\ ServedFile(req'[r].detected_image) = detected_image_path(req[r])
        /\ ServedFile(req'[r].original_image) \in DOMAIN fs'
        /\ ServedFile(req'[r].detected_image) \in DOMAIN fs'
        /\ fs'[detected_image_path(req[r])] = fs[original_image_path(req[r])]
        /\ ~SharesPath(r) => fs'[detected_image_path(req[r])] = Upload(r)

C5_Rendered(r) ==
    (NoDetections(r) /\ req[r].pc = "Rendered") =>
        \/ /\ req[r].failed = "copy"
           /\ req[r].page = "predict.html"
           /\ req[r].error = "unexpected"
        \/ /\ req[r].failed = ""
           /\ req[r].page = "estimate.html"
           /\ req[r].part_prices = EmptyDict
           /\ ServedFile(req[r].original_image) \in DOMAIN fs
           /\ ServedFile(req[r].detected_image) \in DOMAIN fs

\* C5 amended: a validated upload for which the model reports no detection
\* ends with the estimate page and an empty breakdown unless the copy fails
\* (then with the upload form and the generic error); the copy puts at the
\* detected path the content the original path holds at that moment, which is
\* the request's own upload when no other request stores under the same name,
\* and both paths exist from then on.
C5_NoDetectionsCopy ==
    /\ [](\A r \in Requests : C5_Rendered(r))
    /\ [][\A r \in Requests : C5_CopyStep(r)]_vars

C5_Witness ==
    \E r \in Requests :
        /\ NoDetections(r)
        /\ req[r].pc = "Rendered"
        /\ req[r].page = "estimate.html"
        /\ ServedFile(req[r].detected_image) \in DOMAIN fs
        /\ fs[ServedFile(req[r].detected_image)] = Upload(r)
        /\ fs[ServedFile(req[r].original_image)] = Upload(r)

Stored(r) == {original_image_path(req[r]), detected_image_path(req[r])}

SameUploadName(r, q) ==
    /\ r # q
    /\ req[r].validated /\ req[q].validated
    /\ req[r].file.filename = req[q].file.filename

\* C6 as stated: two requests whose uploads have the same file name store
\* their files under four pairwise distinct paths.
C6_DistinctPaths ==
    \A r, q \in Requests :
        SameUploadName(r, q) => Cardinality(Stored(r) \cup Stored(q)) = 4

\* C6 amended: two requests whose uploads have the same file name and which
\* drew different identifiers store their files under four pairwise distinct
\* paths (original_<id>_<name>, detected_<id>_<name>), write only their own
\* paths and read only their own upload; the two paths of one request always
\* differ.
C6_DistinctIdsDistinctPaths ==
    /\ \A r \in Requests :
          req[r].validated =>
              /\ original_image_path(req[r]) # detected_image_path(req[r])
              /\ req[r].original_filename =
                    OriginalPrefix \o req[r].unique_id \o <<"_">> \o req[r].filename
              /\ req[r].detected_filename =
                    DetectedPrefix \o req[r].unique_id \o <<"_">> \o req[r].filename
              /\ req[r].wrote \subseteq Stored(r)
    /\ \A r, q \in Requests :
          (SameUploadName(r, q) /\ req[r].unique_id # req[q].unique_id) =>
              /\ Cardinality(Stored(r) \cup Stored(q)) = 4
              /\ req[r].wrote \cap Stored(q) = {}
    /\ \A r \in Requests :
          (req[r].validated /\ \A q \in Requests \ {r} :
                                  req[q].validated => req[q].unique_id # req[r].unique_id) =>
              /\ \A path \in req[r].wrote : fs[path].data = r
              /\ req[r].boxes >= 0 => req[r].seen = Upload(r)

C6_Witness ==
    \E r, q \in Requests :
        /\ SameUploadName(r, q)
        /\ req[r].unique_id # req[q].unique_id
        /\ req[r].pc = "Rendered" /\ req[r].page = "estimate.html"
        /\ req[q].pc = "Rendered" /\ req[q].page = "estimate.html"
        /\ Cardinality(DOMAIN fs) = 4

Started == phase \in {"serving", "crashed"}

\* C7: when the configured weights do not load the pretrained ones are used,
\* and when no model can be loaded start-up still completes, the process
\* serves requests, and each POST is answered with the upload form and the
\* model-load error.
C7_StartupSurvives ==
    /\ (Started /\ env.weights = "pretrained_only") => (phase = "serving" /\ MODEL = "fallback")
    /\ (Started /\ env.weights = "neither") =>
          /\ phase = "serving"
          /\ \A r \in Requests :
                Answered(r) => (req[r].pc = "Rendered" /\ req[r].error = "model")

PriceFileUnusable == ~env.price_file.exists \/ ~env.price_file.json

\* the classCounts mappings looked up: at most one entry, any kind of key
LookupInputs == {d \in ClassCountsInputs : Len(d) <= 1}

\* C8: when the price file is missing or is not JSON, the price table and the
\* brand list are empty at every moment of the process, every pricing lookup
\* returns the empty breakdown without raising, and so no request shows a
\* price.
C8_EmptyTableForever ==
    PriceFileUnusable =>
        /\ CAR_PRICES = NoDoc
        /\ AVAILABLE_BRANDS = <<>>
        /\ \A b \in CallBrands, m \in CallModels, d \in LookupInputs :
              calculate_prices(CAR_PRICES, b, m, d) = Returned(EmptyDict)
        /\ \A r \in Requests : req[r].part_prices = EmptyDict

C8_Witness ==
    /\ PriceFileUnusable
    /\ env.price_file.exists
    /\ \E r \in Requests :
          /\ req[r].pc = "Rendered"
          /\ req[r].page = "estimate.html"
          /\ req[r].car_brand = "Toyota" /\ req[r].car_model = "Camry"
          /\ req[r].class_counts = <<<<Num(0), 2>>>>
          /\ req[r].part_prices = EmptyDict

\* The position of a request in AwaitingUpload -> Validating -> Detecting
\* (save, detect, write the annotated image) -> Pricing -> Rendered
Rank(pc) ==
    CASE pc = "AwaitingUpload" -> 0
      [] pc = "Validating" -> 1
      [] pc = "Saving" -> 2
      [] pc = "Detecting" -> 3
      [] pc \in {"Annotating", "Copying"} -> 4
      [] pc = "Pricing" -> 5
      [] OTHER -> 6

InDetecting(pc) == pc \in {"Saving", "Detecting", "Annotating", "Copying"}

C9_Forward(r) ==
    req'[r] # req[r] => Rank(req'[r].pc) > Rank(req[r].pc)

C9_Order(r) ==
    /\ (InDetecting(req[r].pc) \/ req[r].pc = "Pricing") => req[r].validated
    /\ req[r].pc = "Pricing" => (req[r].invoked /\ req[r].boxes > 0)
    /\ (req[r].pc = "Rendered" /\ req[r].method = "POST") =>
          \/ req[r].page = "estimate.html" /\ req[r].error = "" /\ req[r].boxes >= 0
          \/ req[r].page = "predict.html" /\ req[r].error # ""

\* C9: a request only moves forward through AwaitingUpload, Validating,
\* Detecting, Pricing, Rendered; it is in Detecting only after validation has
\* passed and in Pricing only after detection has completed; a failure leads
\* to Rendered with an error; every POST is eventually Rendered.
C9_ForwardToRendered ==
    /\ [][\A r \in Requests : C9_Forward(r)]_vars
    /\ [](\A r \in Requests : C9_Order(r))
    /\ \A r \in Requests : (req[r].pc = "Validating") ~> (req[r].pc = "Rendered")

C9_Witness ==
    \E r, q \in Requests :
        /\ req[r].pc = "Rendered" /\ req[r].page = "estimate.html" /\ req[r].boxes = 2
        /\ req[q].pc = "Rendered" /\ req[q].failed = "detect"

C10_Failed(r) ==
    req[r].failed # "" =>
        /\ req[r].validated
        /\ req[r].pc = "Rendered"
        /\ req[r].page = "predict.html"
        /\ req[r].error = "unexpected"

=============================================================================
